---------------------------- MODULE Spec2Model ----------------------------
(***************************************************************************)
(* Model of wait.py: a watchdog observer thread delivers file system       *)
(* events to Handler, which records Change(code, path) tuples in the       *)
(* module-level set CHANGES; the main thread (wait) polls CHANGES once a   *)
(* second, prints the sorted changes, runs the command and clears the set. *)
(*                                                                         *)
(* Strings are sequences of one-character strings, so that fnmatch,        *)
(* str.split, shlex.split, os.path.relpath and string comparison are       *)
(* computed and not assumed.  Every access to CHANGES is one atomic step   *)
(* (the interpreter executes set.add, bool(set), sorted(set) and           *)
(* set.clear without switching threads); the threads interleave between    *)
(* these steps, because the source takes no lock.                          *)
(***************************************************************************)
EXTENDS Integers, Sequences, FiniteSets, TLC

\* src/wait.py:18-20
CODE_MODIFIED == "M"
CODE_RENAMED == "R"
CODE_DELETED == "D"

Codes == {CODE_MODIFIED, CODE_RENAMED, CODE_DELETED}

\* A missing click option (None).
None == <<"None">>

\* Code points of the characters that occur in paths, globs and commands.
CharCode == [c \in {" ", "\"", "!", "*", ",", ".", "/", "?", "[", "]",
                    "a", "b", "d", "m", "r", "x", "z"} |->
    CASE c = " " -> 32 [] c = "!" -> 33 [] c = "\"" -> 34 [] c = "*" -> 42
      [] c = "," -> 44 [] c = "." -> 46 [] c = "/" -> 47 [] c = "?" -> 63
      [] c = "[" -> 91 [] c = "]" -> 93 [] c = "a" -> 97 [] c = "b" -> 98
      [] c = "d" -> 100 [] c = "m" -> 109 [] c = "r" -> 114
      [] c = "x" -> 120 [] c = "z" -> 122]

Range(s) == {s[i] : i \in 1..Len(s)}

(***************************************************************************)
(* str comparison: lexicographic by code point (the sort key x.path).      *)
(***************************************************************************)
RECURSIVE StrLess(_, _)
StrLess(s, t) ==
    IF t = <<>> THEN FALSE
    ELSE IF s = <<>> THEN TRUE
    ELSE IF CharCode[Head(s)] # CharCode[Head(t)]
         THEN CharCode[Head(s)] < CharCode[Head(t)]
    ELSE StrLess(Tail(s), Tail(t))

StrLeq(s, t) == s = t \/ StrLess(s, t)

(***************************************************************************)
(* str.split(sep): the pieces between the separators, empty pieces kept.   *)
(***************************************************************************)
RECURSIVE SplitAcc(_, _, _)
SplitAcc(s, sep, cur) ==
    IF s = <<>> THEN <<cur>>
    ELSE IF Head(s) = sep THEN <<cur>> \o SplitAcc(Tail(s), sep, <<>>)
    ELSE SplitAcc(Tail(s), sep, Append(cur, Head(s)))

Split(s, sep) == SplitAcc(s, sep, <<>>)

\* Handler.__init__: `opt.split(',') if opt else []`
GlobList(opt) == IF opt = None \/ opt = <<>> THEN <<>> ELSE Split(opt, ",")

(***************************************************************************)
(* fnmatch.fnmatchcase(path, glob): `*` any run of characters, `?` one     *)
(* character, `[seq]` / `[!seq]` a character class (a `[` without a        *)
(* closing `]` is a literal), anything else itself; the whole path must    *)
(* match.  ClassEnd follows fnmatch.translate's scan for the closing `]`.  *)
(***************************************************************************)
RECURSIVE ScanBracket(_, _)
ScanBracket(pat, j) ==
    IF j > Len(pat) THEN 0
    ELSE IF pat[j] = "]" THEN j
    ELSE ScanBracket(pat, j + 1)

ClassEnd(pat, i) ==
    LET j1 == IF i + 1 <= Len(pat) /\ pat[i + 1] = "!" THEN i + 2 ELSE i + 1
        j2 == IF j1 <= Len(pat) /\ pat[j1] = "]" THEN j1 + 1 ELSE j1
    IN  ScanBracket(pat, j2)

InClass(pat, i, k, c) ==
    IF pat[i + 1] = "!"
    THEN c \notin {pat[x] : x \in (i + 2)..(k - 1)}
    ELSE c \in {pat[x] : x \in (i + 1)..(k - 1)}

RECURSIVE GlobAt(_, _, _, _)
GlobAt(pat, i, s, j) ==
    IF i > Len(pat) THEN j > Len(s)
    ELSE IF pat[i] = "*"
         THEN GlobAt(pat, i + 1, s, j)
              \/ (j <= Len(s) /\ GlobAt(pat, i, s, j + 1))
    ELSE IF pat[i] = "?"
         THEN j <= Len(s) /\ GlobAt(pat, i + 1, s, j + 1)
    ELSE IF pat[i] = "[" /\ ClassEnd(pat, i) # 0
         THEN j <= Len(s) /\ InClass(pat, i, ClassEnd(pat, i), s[j])
              /\ GlobAt(pat, ClassEnd(pat, i) + 1, s, j + 1)
    ELSE j <= Len(s) /\ s[j] = pat[i] /\ GlobAt(pat, i + 1, s, j + 1)

\* Handler._matches
_matches(glob, path) == GlobAt(glob, 1, path, 1)

(***************************************************************************)
(* Handler._should_process: the two loops with their early returns.        *)
(***************************************************************************)
RECURSIVE AnyMatch(_, _)
AnyMatch(globs, path) ==
    IF globs = <<>> THEN FALSE
    ELSE IF _matches(Head(globs), path) THEN TRUE
    ELSE AnyMatch(Tail(globs), path)

\* Variant: the include globs are tried before the exclude globs.
_should_process_includes_first(patterns, excludes, event) ==
    IF event.is_directory THEN FALSE
    ELSE IF AnyMatch(patterns, event.src_path) THEN TRUE
    ELSE IF AnyMatch(excludes, event.src_path) THEN FALSE
    ELSE FALSE

\* Variant: directory events are not set aside.
_should_process_directories(patterns, excludes, event) ==
    IF AnyMatch(excludes, event.src_path) THEN FALSE
    ELSE IF AnyMatch(patterns, event.src_path) THEN TRUE
    ELSE FALSE

_should_process(patterns, excludes, event) ==
    IF event.is_directory THEN FALSE
    ELSE IF AnyMatch(excludes, event.src_path) THEN FALSE
    ELSE IF AnyMatch(patterns, event.src_path) THEN TRUE
    ELSE FALSE

\* Change = namedtuple('Change', ['code', 'path'])
Change(code, path) == [code |-> code, path |-> path]

\* Variant: a collection keyed by path, the new kind replacing the old one.
SetAdd_by_path(S, c) == {x \in S : x.path # c.path} \cup {c}

\* set.add
SetAdd(S, c) == S \cup {c}

(***************************************************************************)
(* os.path.relpath(path) for the paths the observer reports when it        *)
(* watches ".": the leading "./" is dropped.                               *)
(***************************************************************************)
Relpath(path) ==
    IF Len(path) > 2 /\ path[1] = "." /\ path[2] = "/"
    THEN SubSeq(path, 3, Len(path))
    ELSE path

(***************************************************************************)
(* sorted(CHANGES, key=lambda x: x.path): the set is read in its iteration *)
(* order (hash order, any permutation) and sorted stably by path.          *)
(***************************************************************************)
RECURSIVE InsertByPath(_, _)
InsertByPath(sorted, c) ==
    IF sorted = <<>> THEN <<c>>
    ELSE IF StrLess(c.path, Head(sorted).path) THEN <<c>> \o sorted
    ELSE <<Head(sorted)>> \o InsertByPath(Tail(sorted), c)

\* Variant: the iteration order is kept.
SortByPath_unsorted(seq) == seq

RECURSIVE SortByPath(_)
SortByPath(seq) ==
    IF seq = <<>> THEN <<>>
    ELSE CHOOSE r \in {InsertByPath(prefix, seq[Len(seq)]) :
                          prefix \in {SortByPath(SubSeq(seq, 1, Len(seq) - 1))}} : TRUE

RECURSIVE IterationOrders(_)
IterationOrders(S) ==
    IF S = {} THEN {<<>>}
    ELSE UNION {{<<x>> \o o : o \in IterationOrders(S \ {x})} : x \in S}

\* Variant: one change is taken per drain.
Sorted_one(S) == {<<c>> : c \in S}

Sorted(S) == {SortByPath(o) : o \in IterationOrders(S)}

(***************************************************************************)
(* shlex.split for commands made of letters, spaces and double quotes:     *)
(* words are separated by spaces, a quoted stretch keeps its spaces, and   *)
(* an unclosed quote raises ValueError ("No closing quotation").           *)
(***************************************************************************)
RECURSIVE ShlexAcc(_, _, _, _)
ShlexAcc(s, cur, inword, inquote) ==
    IF s = <<>>
    THEN IF inquote THEN <<"ValueError">>
         ELSE IF inword THEN <<"ok", <<cur>> >> ELSE <<"ok", <<>> >>
    ELSE IF Head(s) = "\""
         THEN ShlexAcc(Tail(s), cur, TRUE, ~inquote)
    ELSE IF Head(s) = " " /\ ~inquote
         THEN IF inword
              THEN LET rest == ShlexAcc(Tail(s), <<>>, FALSE, FALSE)
                   IN  IF rest[1] = "ok" THEN <<"ok", <<cur>> \o rest[2]>> ELSE rest
              ELSE ShlexAcc(Tail(s), <<>>, FALSE, FALSE)
    ELSE ShlexAcc(Tail(s), Append(cur, Head(s)), TRUE, inquote)

ShlexSplit(command) == ShlexAcc(command, <<>>, FALSE, FALSE)

\* The programs subprocess.run can start; any other argv[0] raises FileNotFoundError.
Executables == {<<"r">>}

CanSpawn(args) == args # <<>> /\ args[1] \in Executables

(***************************************************************************)
(* Inputs: the command lines the program is started with and the events    *)
(* the observer delivers.                                                  *)
(***************************************************************************)
pA == <<".", "/", "a">>
pM == <<".", "/", "m">>
pZ == <<".", "/", "z">>
pD == <<".", "/", "d">>
pB == <<".", "/", "b">>
pAB == <<".", "/", "a", "b">>

Options == {
    [pattern |-> <<".", "/", "?">>, exclude |-> None,
     command |-> <<"r", " ", "a">>],
    [pattern |-> <<"*">>, exclude |-> <<".", "/", "m", ",", "*", "b">>,
     command |-> <<"r">>],
    [pattern |-> <<".", "/", "[", "!", "m", "]">>, exclude |-> <<>>,
     command |-> <<"r", " ", "\"", "a">>],
    [pattern |-> <<".", "/", "a", ",", ".", "/", "z">>, exclude |-> <<"*", "z">>,
     command |-> <<"x">>],
    [pattern |-> None, exclude |-> None, command |-> <<"r">>] }

FsEvent(type, src, dest, dir) ==
    [event_type |-> type, src_path |-> src, dest_path |-> dest, is_directory |-> dir]

Events == {
    FsEvent("modified", pA, <<>>, FALSE),
    FsEvent("modified", pM, <<>>, FALSE),
    FsEvent("modified", pZ, <<>>, FALSE),
    FsEvent("modified", pD, <<>>, TRUE),
    FsEvent("deleted", pA, <<>>, FALSE),
    FsEvent("moved", pM, pB, FALSE),
    FsEvent("moved", pAB, pZ, FALSE),
    FsEvent("created", pA, <<>>, FALSE) }

NoEvent == FsEvent("none", <<>>, <<>>, FALSE)

\* Captured child output is a byte string: nothing, "o", "\xc3\xa9" (an e
\* with an acute accent) and the lone byte 0xff.
NoBytes == <<>>
TextBytes == <<111>>
AccentBytes == <<195, 169>>
BadBytes == <<255>>

\* bytes.decode("utf-8") returns a str; it raises UnicodeDecodeError unless
\* the bytes are well-formed UTF-8.
RECURSIVE Utf8Decodes(_)
Utf8Decodes(b) ==
    LET Cont(i) == i <= Len(b) /\ b[i] \in 128..191
        Rest(n) == Utf8Decodes(SubSeq(b, n + 1, Len(b)))
    IN  IF b = <<>> THEN TRUE
        ELSE IF b[1] < 128 THEN Rest(1)
        ELSE IF b[1] \in 194..223 THEN Cont(2) /\ Rest(2)
        ELSE IF b[1] = 224 THEN Cont(2) /\ b[2] >= 160 /\ Cont(3) /\ Rest(3)
        ELSE IF b[1] = 237 THEN Cont(2) /\ b[2] <= 159 /\ Cont(3) /\ Rest(3)
        ELSE IF b[1] \in 225..239 THEN Cont(2) /\ Cont(3) /\ Rest(3)
        ELSE IF b[1] = 240 THEN Cont(2) /\ b[2] >= 144 /\ Cont(3) /\ Cont(4) /\ Rest(4)
        ELSE IF b[1] \in 241..243 THEN Cont(2) /\ Cont(3) /\ Cont(4) /\ Rest(4)
        ELSE IF b[1] = 244 THEN Cont(2) /\ b[2] <= 143 /\ Cont(3) /\ Cont(4) /\ Rest(4)
        ELSE FALSE

\* What a finished child process hands back: returncode, stdout and stderr.
CompletedProcess(rc, o, e) == [returncode |-> rc, stdout |-> o, stderr |-> e]

Results == {
    CompletedProcess(0, NoBytes, NoBytes),
    CompletedProcess(0, AccentBytes, NoBytes),
    CompletedProcess(1, NoBytes, TextBytes),
    CompletedProcess(1, TextBytes, TextBytes),
    CompletedProcess(0, BadBytes, NoBytes),
    CompletedProcess(1, TextBytes, BadBytes) }

NoResult == CompletedProcess(0, NoBytes, NoBytes)

\* Printed lines.
ChangeLine(c) == [k |-> "change", code |-> c.code, text |-> Relpath(c.path)]
RunningLine(command) == [k |-> "Running", code |-> "", text |-> command]
ExitLine(rc) == [k |-> "Exit Code", code |-> IF rc # 0 THEN "RED" ELSE "GREEN", text |-> <<rc>>]
StdoutLine == [k |-> "stdout", code |-> "", text |-> <<>>]
StderrLine == [k |-> "stderr", code |-> "RED", text |-> <<>>]
WaitingLine == [k |-> "waiting...", code |-> "", text |-> <<>>]

VARIABLES
    opts,       \* the click options: pattern, exclude, command
    CHANGES,    \* the module-level set of Change tuples
    pc,         \* position of the main thread in wait()
    observer,   \* "created", "started", "stopped", "joined"
    batch,      \* the list sorted(CHANGES) of the current drain cycle
    idx,        \* how many of its elements the for loop has taken
    result,     \* subprocess.run's CompletedProcess
    out,        \* stdout since (and including) the latest "waiting..." line
    runs,       \* children started by subprocess.run since that line
    last        \* the latest callback of the observer thread

vars == <<opts, CHANGES, pc, observer, batch, idx, result, out, runs, last>>

\* Handler(pattern, exclude)
patterns == GlobList(opts.pattern)
excludes == GlobList(opts.exclude)

Init ==
    /\ opts \in Options
    /\ CHANGES = {}
    /\ pc = "init"
    /\ observer = "created"
    /\ batch = <<>>
    /\ idx = 0
    /\ result = NoResult
    /\ out = <<>>
    /\ runs = 0
    /\ last = [event |-> NoEvent, accepted |-> FALSE, present |-> FALSE]

\* The process is alive and the observer thread dispatches events.
Dispatching == observer = "started" /\ pc \notin {"killed", "crashed", "done"}

(***************************************************************************)
(* Observer thread: the Handler callbacks.                                 *)
(***************************************************************************)
\* Variant: the callback prints the change itself.
Callback_printing(event, code) ==
    /\ Dispatching
    /\ LET ok == _should_process(patterns, excludes, event)
           c == Change(code, event.src_path)
       IN  /\ CHANGES' = IF ok THEN SetAdd(CHANGES, c) ELSE CHANGES
           /\ out' = IF ok THEN Append(out, ChangeLine(c)) ELSE out
           /\ last' = [event |-> event, accepted |-> ok,
                       present |-> ok /\ c \in CHANGES]
    /\ UNCHANGED <<opts, pc, observer, batch, idx, result, runs>>

\* The body the three overridden callbacks share.
Callback(event, code) ==
    /\ Dispatching
    /\ LET ok == _should_process(patterns, excludes, event)
           c == Change(code, event.src_path)
       IN  /\ CHANGES' = IF ok THEN SetAdd(CHANGES, c) ELSE CHANGES
           /\ last' = [event |-> event, accepted |-> ok,
                       present |-> ok /\ c \in CHANGES]
    /\ UNCHANGED <<opts, pc, observer, batch, idx, result, out, runs>>

\* Variant: a move is judged and recorded by its destination path.
on_moved_dest(event) ==
    /\ event.event_type = "moved"
    /\ Dispatching
    /\ LET moved == [event EXCEPT !.src_path = event.dest_path]
           ok == _should_process(patterns, excludes, moved)
           c == Change(CODE_RENAMED, event.dest_path)
       IN  /\ CHANGES' = IF ok THEN SetAdd(CHANGES, c) ELSE CHANGES
           /\ last' = [event |-> event, accepted |-> ok,
                       present |-> ok /\ c \in CHANGES]
    /\ UNCHANGED <<opts, pc, observer, batch, idx, result, out, runs>>

on_moved(event) == event.event_type = "moved" /\ Callback(event, CODE_RENAMED)

on_deleted(event) == event.event_type = "deleted" /\ Callback(event, CODE_DELETED)

on_modified(event) == event.event_type = "modified" /\ Callback(event, CODE_MODIFIED)

\* Variant: a created file is recorded like a modified one.
on_created_recorded(event) ==
    event.event_type = "created" /\ Callback(event, CODE_MODIFIED)

\* FileSystemEventHandler.on_created is not overridden: nothing happens.
on_created(event) ==
    /\ event.event_type = "created"
    /\ Dispatching
    /\ last' = [event |-> event, accepted |-> FALSE, present |-> FALSE]
    /\ UNCHANGED <<opts, CHANGES, pc, observer, batch, idx, result, out, runs>>

(***************************************************************************)
(* Main thread: wait().                                                    *)
(***************************************************************************)
\* Observer(); observer.schedule(...); observer.start()
ObserverStart ==
    /\ pc = "init"
    /\ observer' = "started"
    /\ pc' = "started"
    /\ UNCHANGED <<opts, CHANGES, batch, idx, result, out, runs, last>>

\* print('waiting...'), still before the try block.
FirstWaiting ==
    /\ pc = "started"
    /\ out' = <<WaitingLine>>
    /\ pc' = "try"
    /\ UNCHANGED <<opts, CHANGES, observer, batch, idx, result, runs, last>>

\* try: while True: the loop is entered and time.sleep(1) begins.
EnterTry ==
    /\ pc = "try"
    /\ pc' = "sleep"
    /\ UNCHANGED <<opts, CHANGES, observer, batch, idx, result, out, runs, last>>

\* Variant: the tick does not look at the set.
Tick_never_drains ==
    /\ pc = "sleep"
    /\ pc' = "sleep"
    /\ UNCHANGED <<opts, CHANGES, observer, batch, idx, result, out, runs, last>>

\* Variant: the waiting line is printed on every tick that finds nothing.
Tick_waiting_each ==
    /\ pc = "sleep"
    /\ pc' = IF CHANGES = {} THEN "sleep" ELSE "sort"
    /\ out' = IF CHANGES = {} THEN Append(out, WaitingLine) ELSE out
    /\ UNCHANGED <<opts, CHANGES, observer, batch, idx, result, runs, last>>

\* time.sleep(1) returns and `if CHANGES:` reads the set.
Tick ==
    /\ pc = "sleep"
    /\ pc' = IF CHANGES = {} THEN "sleep" ELSE "sort"
    /\ UNCHANGED <<opts, CHANGES, observer, batch, idx, result, out, runs, last>>

\* Variant: an insertion lands in the middle of the iteration of the set.
SortChanges_torn ==
    /\ pc = "sort"
    /\ \E event \in Events :
          /\ event.event_type = "modified"
          /\ _should_process(patterns, excludes, event)
          /\ CHANGES' = SetAdd(CHANGES, Change(CODE_MODIFIED, event.src_path))
          /\ batch' \in Sorted(CHANGES) \cup Sorted(CHANGES')
    /\ idx' = 0
    /\ pc' = "print"
    /\ UNCHANGED <<opts, observer, result, out, runs, last>>

\* sorted(CHANGES, key=lambda x: x.path)
SortChanges ==
    /\ pc = "sort"
    /\ batch' \in Sorted(CHANGES)
    /\ idx' = 0
    /\ pc' = "print"
    /\ UNCHANGED <<opts, CHANGES, observer, result, out, runs, last>>

\* One pass of the for loop: _print_fs_change(change.code, change.path);
\* after the last one _run_command is entered.
PrintChange ==
    /\ pc = "print"
    /\ idx' = idx + 1
    /\ out' = Append(out, ChangeLine(batch[idx']))
    /\ pc' = IF idx' = Len(batch) THEN "split" ELSE "print"
    /\ UNCHANGED <<opts, CHANGES, observer, batch, result, runs, last>>

\* args = shlex.split(command); print(f"Running: {command}"); start = timer()
SplitCommand ==
    /\ pc = "split"
    /\ IF ShlexSplit(opts.command)[1] = "ok"
       THEN /\ out' = Append(out, RunningLine(opts.command))
            /\ pc' = "spawn"
       ELSE /\ pc' = "crashed"
            /\ UNCHANGED out
    /\ UNCHANGED <<opts, CHANGES, observer, batch, idx, result, runs, last>>

\* Variant: one child is started per change of the batch.
Spawn_per_change ==
    /\ pc = "spawn"
    /\ IF CanSpawn(ShlexSplit(opts.command)[2])
       THEN /\ runs' = runs + Len(batch)
            /\ pc' = "running"
       ELSE /\ pc' = "crashed"
            /\ UNCHANGED runs
    /\ UNCHANGED <<opts, CHANGES, observer, batch, idx, result, out, last>>

\* subprocess.run(args, capture_output=True) starts the child, or raises.
Spawn ==
    /\ pc = "spawn"
    /\ IF CanSpawn(ShlexSplit(opts.command)[2])
       THEN /\ runs' = runs + 1
            /\ pc' = "running"
       ELSE /\ pc' = "crashed"
            /\ UNCHANGED runs
    /\ UNCHANGED <<opts, CHANGES, observer, batch, idx, result, out, last>>

\* The child exits; subprocess.run returns.
CommandExit ==
    /\ pc = "running"
    /\ result' \in Results
    /\ pc' = "report"
    /\ UNCHANGED <<opts, CHANGES, observer, batch, idx, out, runs, last>>

\* Variant: stdout is printed before the exit code.
Report_stdout_first ==
    /\ pc = "report"
    /\ out' = out \o (IF result.stdout # NoBytes /\ Utf8Decodes(result.stdout)
                      THEN <<StdoutLine>> ELSE <<>>)
                  \o <<ExitLine(result.returncode)>>
    /\ pc' = "stderr"
    /\ UNCHANGED <<opts, CHANGES, observer, batch, idx, result, runs, last>>

\* end = timer(); print(f"Elapsed: ... Exit Code: {color}{returncode}...")
Report ==
    /\ pc = "report"
    /\ out' = Append(out, ExitLine(result.returncode))
    /\ pc' = "stdout"
    /\ UNCHANGED <<opts, CHANGES, observer, batch, idx, result, runs, last>>

\* if result.stdout: print(result.stdout.decode("utf-8")); the decode may
\* raise UnicodeDecodeError, which nothing catches.
PrintStdout ==
    /\ pc = "stdout"
    /\ IF result.stdout = NoBytes
       THEN /\ pc' = "stderr"
            /\ UNCHANGED <<out, result>>
       ELSE IF Utf8Decodes(result.stdout)
       THEN /\ out' = Append(out, StdoutLine)
            /\ pc' = "stderr"
            /\ UNCHANGED result
       ELSE /\ pc' = "crashed"
            /\ result' = NoResult
            /\ UNCHANGED out
    /\ UNCHANGED <<opts, CHANGES, observer, batch, idx, runs, last>>

\* if result.stderr: print(f'{Fore.RED}{result.stderr.decode("utf-8")}...');
\* then _run_command returns and its local `result` is gone.
PrintStderr ==
    /\ pc = "stderr"
    /\ IF result.stderr = NoBytes
       THEN /\ pc' = "clear"
            /\ UNCHANGED out
       ELSE IF Utf8Decodes(result.stderr)
       THEN /\ out' = Append(out, StderrLine)
            /\ pc' = "clear"
       ELSE /\ pc' = "crashed"
            /\ UNCHANGED out
    /\ result' = NoResult
    /\ UNCHANGED <<opts, CHANGES, observer, batch, idx, runs, last>>

\* Variant: the set is not cleared.
Clear_forgotten ==
    /\ pc = "clear"
    /\ pc' = "waiting"
    /\ UNCHANGED <<opts, CHANGES, observer, batch, idx, result, out, runs, last>>

\* CHANGES.clear()
Clear ==
    /\ pc = "clear"
    /\ CHANGES' = {}
    /\ pc' = "waiting"
    /\ UNCHANGED <<opts, observer, batch, idx, result, out, runs, last>>

\* print('waiting...'); back to the top of the loop.
Waiting ==
    /\ pc = "waiting"
    /\ out' = <<WaitingLine>>
    /\ runs' = 0
    /\ batch' = <<>>
    /\ idx' = 0
    /\ pc' = "sleep"
    /\ UNCHANGED <<opts, CHANGES, observer, result, last>>

\* Positions inside `try: while True: ...`.
InTry == {"sleep", "sort", "print", "split", "spawn", "running", "report",
          "stdout", "stderr", "clear", "waiting"}

\* Variant: the set is also cleared when the cycle is interrupted.
Interrupt_clearing ==
    /\ pc \in InTry \cup {"init", "started", "try", "except", "join"}
    /\ pc' = IF pc \in InTry THEN "except" ELSE "killed"
    /\ CHANGES' = {}
    /\ batch' = <<>>
    /\ idx' = 0
    /\ result' = NoResult
    /\ UNCHANGED <<opts, observer, out, runs, last>>

\* SIGINT: KeyboardInterrupt is raised in the main thread.  Inside the try
\* block the except clause takes it; anywhere else it leaves wait().  The
\* unwinding drops the sorted list and _run_command's locals.
Interrupt ==
    /\ pc \in InTry \cup {"init", "started", "try", "except", "join"}
    /\ pc' = IF pc \in InTry THEN "except" ELSE "killed"
    /\ batch' = <<>>
    /\ idx' = 0
    /\ result' = NoResult
    /\ UNCHANGED <<opts, CHANGES, observer, out, runs, last>>

\* except KeyboardInterrupt: observer.stop()
ObserverStop ==
    /\ pc = "except"
    /\ observer' = "stopped"
    /\ pc' = "join"
    /\ UNCHANGED <<opts, CHANGES, batch, idx, result, out, runs, last>>

\* observer.join(); wait() returns.
ObserverJoin ==
    /\ pc = "join"
    /\ observer' = "joined"
    /\ pc' = "done"
    /\ UNCHANGED <<opts, CHANGES, batch, idx, result, out, runs, last>>

HandlerStep ==
    \E event \in Events :
        \/ on_moved(event)
        \/ on_deleted(event)
        \/ on_modified(event)
        \/ on_created(event)

Next ==
    \/ HandlerStep
    \/ ObserverStart
    \/ FirstWaiting
    \/ EnterTry
    \/ Tick
    \/ SortChanges
    \/ PrintChange
    \/ SplitCommand
    \/ Spawn
    \/ CommandExit
    \/ Report
    \/ PrintStdout
    \/ PrintStderr
    \/ Clear
    \/ Waiting
    \/ Interrupt
    \/ ObserverStop
    \/ ObserverJoin

Spec == Init /\ [][Next]_vars

\* The steps of the main thread other than the arrival of SIGINT.
MainStep ==
    \/ ObserverStart
    \/ FirstWaiting
    \/ EnterTry
    \/ Tick
    \/ SortChanges
    \/ PrintChange
    \/ SplitCommand
    \/ Spawn
    \/ CommandExit
    \/ Report
    \/ PrintStdout
    \/ PrintStderr
    \/ Clear
    \/ Waiting
    \/ ObserverStop
    \/ ObserverJoin

\* The main thread is never starved: time.sleep(1) returns, a started
\* child exits, and every statement that can run does run.
FairSpec == Spec /\ WF_vars(MainStep)

TypeOK ==
    /\ opts \in Options
    /\ CHANGES \subseteq [code : Codes, path : {e.src_path : e \in Events}]
    /\ pc \in InTry \cup {"init", "started", "try", "except", "join", "done",
                      "killed", "crashed"}
    /\ observer \in {"created", "started", "stopped", "joined"}
    /\ result \in Results
    /\ runs \in 0..1

(***************************************************************************)
(* Properties.                                                             *)
(***************************************************************************)
\* The change lines printed in the current cycle, in print order.
Printed == SelectSeq(out, LAMBDA l : l.k = "change")

Count(kind) == Len(SelectSeq(out, LAMBDA l : l.k = kind))

BatchLines == [i \in 1..Len(batch) |-> ChangeLine(batch[i])]

\* Positions of a drain cycle after the for loop has ended.
AfterLoop == {"split", "spawn", "running", "report", "stdout", "stderr",
              "clear", "waiting"}

\* A step of the observer thread that adds an element to CHANGES.
Insertion == CHANGES' # CHANGES /\ CHANGES \subseteq CHANGES'

CodeOf(type) ==
    CASE type = "modified" -> CODE_MODIFIED
      [] type = "deleted" -> CODE_DELETED
      [] type = "moved" -> CODE_RENAMED
      [] OTHER -> ""

\* C1: a change that is in CHANGES when the drain cycle clears the set and
\* was not printed in this cycle (it arrived after the sorted read) stays
\* pending for the next cycle.
C1_NoLostChange ==
    [][pc = "clear" /\ pc' = "waiting" =>
         \A c \in CHANGES : ChangeLine(c) \notin Range(Printed) => c \in CHANGES']_vars

C3_ErrorKeepsLoop ==
    pc # "crashed"

\* C4: the callback's decision is TRUE exactly for a non-directory event
\* whose source path matches no exclude glob and at least one include glob.
ShouldProcessSpec(event) ==
    /\ ~event.is_directory
    /\ \A i \in 1..Len(excludes) : ~_matches(excludes[i], event.src_path)
    /\ \E i \in 1..Len(patterns) : _matches(patterns[i], event.src_path)

C4_ShouldProcessIff ==
    last.event.event_type \in {"modified", "deleted", "moved"} =>
        last.accepted = ShouldProcessSpec(last.event)

C4_Witness ==
    /\ last.event.event_type = "modified"
    /\ ~last.event.is_directory
    /\ \E i \in 1..Len(patterns) : _matches(patterns[i], last.event.src_path)
    /\ \E i \in 1..Len(excludes) : _matches(excludes[i], last.event.src_path)
    /\ ~last.accepted

\* C5: a cycle whose only pending change is one Modified path prints one
\* change line for it and starts the command once; the clear empties the
\* set, and a tick that finds the set empty prints and runs nothing.
C5_SingleEvent ==
    /\ [](\A e \in Events :
            pc = "clear" /\ CHANGES = {Change(CODE_MODIFIED, e.src_path)} =>
                /\ Printed = <<ChangeLine(Change(CODE_MODIFIED, e.src_path))>>
                /\ Count("Running") = 1
                /\ runs = 1)
    /\ [][/\ (pc = "clear" /\ pc' = "waiting" => CHANGES' = {})
          /\ (pc = "sleep" /\ CHANGES = {} /\ CHANGES' = {} =>
                pc' \in {"sleep", "except"} /\ out' = out /\ runs' = runs)]_vars

C5_Witness ==
    /\ pc = "waiting"
    /\ CHANGES = {}
    /\ Printed = <<ChangeLine(Change(CODE_MODIFIED, pA))>>
    /\ Count("Running") = 1
    /\ runs = 1

\* C6: the changes pending at a tick stay pending until the drain reads the
\* set, the drain takes all of them into one batch, prints the whole batch
\* and starts the command once for it.
C6_Batching ==
    /\ [](pc \in AfterLoop =>
            /\ Printed = BatchLines
            /\ runs <= 1 /\ Count("Running") <= 1
            /\ (pc \in {"clear", "waiting"} => runs = 1 /\ Count("Running") = 1))
    /\ [][/\ (pc \in {"sleep", "sort"} => CHANGES \subseteq CHANGES')
          /\ (pc = "sort" /\ pc' = "print" =>
                Range(batch') = CHANGES /\ Len(batch') = Cardinality(CHANGES))]_vars

C6_Witness ==
    /\ pc = "clear"
    /\ Len(batch) >= 3
    /\ Printed = BatchLines
    /\ runs = 1

\* C7: whatever the child's return code, it is printed once, the command is
\* not started again, and the loop goes on through the rest of the report
\* to the clear, the waiting line and the next sleep; only an interrupt
\* takes it elsewhere.
C7_ExitCodeOnce ==
    /\ [](/\ (pc \in {"stdout", "stderr", "clear", "waiting"} =>
                Count("Exit Code") = 1 /\ runs = 1)
          /\ (pc \in {"sort", "print", "split", "spawn", "running", "report"} =>
                Count("Exit Code") = 0))
    /\ [][/\ (pc = "report" /\ pc' \notin {"report", "except"} =>
                /\ pc' = "stdout"
                /\ out' = Append(out, ExitLine(result.returncode))
                /\ runs' = runs)
          /\ (pc = "stdout" /\ pc' \notin {"stdout", "except"} =>
                pc' = "stderr" /\ runs' = runs)
          /\ (pc = "stderr" /\ pc' \notin {"stderr", "except"} =>
                pc' = "clear" /\ runs' = runs)
          /\ (pc = "clear" /\ pc' \notin {"clear", "except"} =>
                pc' = "waiting" /\ out' = out /\ runs' = runs)
          /\ (pc = "waiting" /\ pc' \notin {"waiting", "except"} => pc' = "sleep")]_vars

\* C8: when the process has ended after the observer was started, the
\* observer has been stopped and joined.
C8_InterruptStopsObserver ==
    pc \in {"killed", "done"} /\ observer # "created" => observer = "joined"

\* C9: an accepted callback adds exactly its (code, path) pair: nothing
\* changes when the pair is present, otherwise the set grows by one and
\* keeps the other kinds recorded for the same path.
C9_SetOfPairs ==
    [][last' # last /\ last'.accepted =>
         LET c == Change(CodeOf(last'.event.event_type), last'.event.src_path)
         IN  /\ c \in CHANGES'
             /\ CHANGES \subseteq CHANGES'
             /\ Cardinality(CHANGES') =
                  IF c \in CHANGES THEN Cardinality(CHANGES) ELSE Cardinality(CHANGES) + 1]_vars

C9_Witness ==
    /\ last.accepted /\ last.present
    /\ last.event.event_type = "modified" /\ last.event.src_path = pA
    /\ {c \in CHANGES : c.path = pA} =
         {Change(CODE_MODIFIED, pA), Change(CODE_DELETED, pA)}

\* C10: the change lines of a cycle are printed in non-decreasing order of
\* path, none twice, and when the loop has ended they are the changes the
\* drain found in the set, one line each.
C10_SortedOutput ==
    /\ [](/\ \A i, j \in 1..Len(Printed) :
                i < j => StrLeq(Printed[i].text, Printed[j].text) /\ Printed[i] # Printed[j]
          /\ (pc \in AfterLoop =>
                /\ Range(Printed) = {ChangeLine(c) : c \in Range(batch)}
                /\ Len(Printed) = Cardinality(Range(batch))))
    /\ [][pc = "sort" /\ pc' = "print" => Range(batch') = CHANGES]_vars

C10_Witness ==
    /\ pc = "split"
    /\ [i \in 1..Len(Printed) |-> Printed[i].text] = << <<"a">>, <<"m">>, <<"z">> >>

\* C11: a modified, deleted or moved callback adds Change(M, D or R, source
\* path) when _should_process accepts the event and changes nothing
\* otherwise; the destination path of a move plays no part.
C11_ClassifierInsert ==
    [][last' # last /\ last'.event.event_type \in {"modified", "deleted", "moved"} =>
         LET e == last'.event
         IN  CHANGES' = IF _should_process(patterns, excludes, e)
                        THEN CHANGES \cup {Change(CodeOf(e.event_type), e.src_path)}
                        ELSE CHANGES]_vars

C11_Witness ==
    /\ last.event = FsEvent("moved", pM, pB, FALSE)
    /\ last.accepted
    /\ Change(CODE_RENAMED, pM) \in CHANGES
    /\ \A c \in CHANGES : c.path # pB

\* C12: a created callback leaves CHANGES as it is, whatever the path, and
\* moves nothing in the main thread: as long as only created events have
\* been delivered the set is empty and no drain cycle has begun.
C12_CreatedIgnored ==
    /\ [][last' # last /\ last'.event.event_type = "created" =>
            CHANGES' = CHANGES /\ pc' = pc /\ out' = out /\ runs' = runs]_vars
    /\ [](last.event.event_type = "created" /\ CHANGES = {} =>
            pc \notin {"sort", "print", "split", "spawn", "running", "report",
                       "stdout", "stderr", "clear"})

C12_Witness ==
    /\ last.event.event_type = "created"
    /\ \E i \in 1..Len(patterns) : _matches(patterns[i], last.event.src_path)
    /\ excludes = <<>>
    /\ CHANGES = {}
    /\ pc = "sleep"

\* C13: the lines of a cycle come in the order change lines, Running line,
\* exit-code line, stdout, stderr; the child starts after every change line
\* and the Running line, the exit-code line follows the child's start, and
\* the clear and the waiting line come after the report.
Stage(line) ==
    CASE line.k = "waiting..." -> 0
      [] line.k = "change" -> 1
      [] line.k = "Running" -> 2
      [] line.k = "Exit Code" -> 3
      [] line.k = "stdout" -> 4
      [] line.k = "stderr" -> 5

C13_CycleOrder ==
    /\ [](/\ \A i, j \in 1..Len(out) : i < j => Stage(out[i]) <= Stage(out[j])
          /\ \A i \in 1..Len(out) : Stage(out[i]) = 0 => i = 1
          /\ Count("Running") <= 1 /\ Count("Exit Code") <= 1
          /\ Count("stdout") <= 1 /\ Count("stderr") <= 1
          /\ (Count("Running") = 1 /\ pc \in InTry => Printed = BatchLines)
          /\ (runs = 1 => Count("Running") = 1)
          /\ (Count("Exit Code") = 1 => runs = 1)
          /\ (Count("stdout") + Count("stderr") > 0 => Count("Exit Code") = 1))
    /\ [][/\ (pc = "clear" /\ pc' = "waiting" => Count("Exit Code") = 1 /\ CHANGES' = {})
          /\ (pc = "waiting" /\ pc' = "sleep" => out' = <<WaitingLine>>)
          /\ (pc = "report" /\ pc' = "stdout" =>
                out' = Append(out, ExitLine(result.returncode)))
          /\ (pc = "stdout" /\ pc' = "stderr" =>
                out' = IF result.stdout # NoBytes THEN Append(out, StdoutLine) ELSE out)
          /\ (pc = "stderr" /\ pc' = "clear" =>
                out' = IF result.stderr # NoBytes THEN Append(out, StderrLine) ELSE out)]_vars

C13_Witness ==
    /\ pc = "clear"
    /\ Len(batch) >= 2
    /\ out = <<WaitingLine>> \o BatchLines
               \o <<RunningLine(opts.command), ExitLine(1), StdoutLine, StderrLine>>

\* C14: at most one child has been started per cycle and it is the only
\* one while the command runs; during the run the main thread takes no
\* step but the child's exit (or an interrupt): nothing is printed, read,
\* cleared or started, whatever the observer thread inserts meanwhile.
C14_OneCommandAtATime ==
    /\ [](runs <= 1 /\ (pc = "running" => runs = 1 /\ Count("Exit Code") = 0))
    /\ [][pc = "running" =>
            /\ pc' \in {"running", "report", "except"}
            /\ runs' = runs
            /\ out' = out
            /\ CHANGES \subseteq CHANGES'
            /\ (pc' # "except" => batch' = batch /\ idx' = idx)]_vars

C14_Witness ==
    /\ pc = "running"
    /\ runs = 1
    /\ Cardinality(CHANGES) >= Len(batch) + 2

\* C15: a step from the sleep that finds CHANGES empty and leaves it empty
\* (no insertion, no interrupt) changes nothing of the main thread: no
\* line, no child, still sleeping; a drain cycle is entered only from a tick that
\* found the set non-empty, so a child is only started for a non-empty
\* batch.
C15_EmptyTick ==
    /\ [][/\ (pc = "sleep" /\ CHANGES = {} /\ CHANGES' = {} /\ pc' # "except" =>
                pc' = "sleep" /\ out' = out /\ runs' = runs /\ batch' = batch
                /\ idx' = idx /\ observer' = observer)
          /\ (pc = "sleep" /\ pc' = "sort" => CHANGES # {})]_vars
    /\ [](/\ (pc = "sleep" => out = <<WaitingLine>> /\ runs = 0)
          /\ (runs = 1 /\ pc \in InTry => Len(batch) >= 1))

C15_Witness ==
    /\ pc = "sleep"
    /\ CHANGES = {}
    /\ out = <<WaitingLine>>
    /\ runs = 0
    /\ last.event.is_directory

\* C16: elements leave CHANGES only by the clear that ends a drain cycle,
\* after the batch was printed, the child was started and its exit code
\* reported; that clear empties the set.  No other step (idle tick,
\* printing, error, interrupt, shutdown) removes an element.
C16_ClearOnlyAfterCommand ==
    [][/\ (~(CHANGES \subseteq CHANGES') =>
             /\ pc = "clear" /\ pc' = "waiting"
             /\ Printed = BatchLines /\ Len(batch) >= 1
             /\ runs = 1
             /\ Count("Exit Code") = 1)
       /\ (pc = "clear" /\ pc' = "waiting" => CHANGES' = {})]_vars

C16_Witness ==
    /\ pc = "waiting"
    /\ CHANGES = {}
    /\ Len(batch) >= 2
    /\ Count("Exit Code") = 1
    /\ last.event.event_type = "deleted"

\* C17: a step of the observer thread (a callback was recorded, or an
\* element was inserted) adds at most one element, removes none, prints
\* nothing, starts no child and moves nothing of the main thread; every
\* step that prints, starts a child or removes elements is a step of the
\* main thread inside its loop (or its first waiting line).
C17_CallbacksOnlyInsert ==
    [][/\ (last' # last \/ Insertion =>
             /\ CHANGES \subseteq CHANGES'
             /\ Cardinality(CHANGES') <= Cardinality(CHANGES) + 1
             /\ out' = out /\ runs' = runs
             /\ pc' = pc /\ batch' = batch /\ idx' = idx
             /\ result' = result /\ observer' = observer)
       /\ (out' # out \/ runs' # runs \/ ~(CHANGES \subseteq CHANGES') =>
             /\ last' = last
             /\ pc \in InTry \cup {"started"}
             /\ (pc' # pc \/ idx' # idx))]_vars

C17_Witness ==
    /\ last.accepted /\ ~last.present
    /\ Cardinality(CHANGES) = 1
    /\ pc = "sleep"
    /\ out = <<WaitingLine>>
    /\ runs = 0

\* C18: every element of CHANGES, of the batch being printed and every
\* printed change line comes from an event of its kind whose source path
\* is not a directory, matches an include glob and matches no exclude
\* glob; its code is M, R or D.
Admissible(c) ==
    /\ c.code \in Codes
    /\ \E e \in Events :
          /\ e.src_path = c.path
          /\ CodeOf(e.event_type) = c.code
          /\ ShouldProcessSpec(e)

C18_OnlyAcceptedPaths ==
    /\ \A c \in CHANGES \cup Range(batch) : Admissible(c)
    /\ \A i \in 1..Len(Printed) :
          \E c \in [code : Codes, path : {e.src_path : e \in Events}] :
              Admissible(c) /\ Printed[i] = ChangeLine(c)

C18_Witness ==
    /\ Cardinality(CHANGES) = 5
    /\ last.event.is_directory
    /\ \E i \in 1..Len(patterns) : _matches(patterns[i], last.event.src_path)
    /\ ~last.accepted

\* C19: when insertions stop from some point on, the main thread ends up
\* sleeping with CHANGES empty and stays so forever, with no child started
\* and nothing printed after its waiting line, unless the behaviour ended
\* by a command error or an interrupt (positions that are never left).
Ended == pc \in {"crashed", "killed", "done"}

Quiescent == pc = "sleep" /\ CHANGES = {} /\ runs = 0 /\ out = <<WaitingLine>>

C19_Quiescence ==
    <>[][~Insertion]_vars => <>[](Quiescent \/ Ended)

C19_Witness ==
    /\ pc = "sleep"
    /\ CHANGES = {}
    /\ runs = 0
    /\ last.accepted
    /\ last.event.event_type = "moved"
=============================================================================
